---- MODULE Spec2Model ----
(***************************************************************************)
(* NeuroDetect EEG seizure classifier: the React front end (App), its     *)
(* analysis services (services/eegAnalysis.ts, in its local and its       *)
(* remote build) and the CSV parser.                                      *)
(*                                                                        *)
(* Conventions.                                                           *)
(*  - A JavaScript string on which the code does string operations is a   *)
(*    sequence of one-character strings; other strings are TLA+ strings.  *)
(*  - A nullable value is <<>> (null / undefined) or <<v>>.               *)
(*  - A sample value is an integer number of tenths, and the             *)
(*    arithmetic on samples is exact; inputs are finite decimal numerals  *)
(*    with at most one fractional digit.                                  *)
(***************************************************************************)
EXTENDS Integers, Sequences, FiniteSets, Bags, TLC

VARIABLES
    impl,          \* which build of services/eegAnalysis.ts is linked
    view, file, fileType, filePreview, eegData, isAnalyzing, result, error,
    loads,         \* FileReader loads in flight (a bag)
    calls,         \* handleAnalyze invocations awaiting their service
    lastEvent,     \* the handler that ran last, with what it saw and did
    csvDoc,        \* parseCSV: the document whose text is parsed
    csvParsed,     \* parseCSV: the EEGData returned
    sigValues,     \* analyzeEEGSignal (local): the sample values
    sigRuns        \* analyzeEEGSignal (local): the results of the calls made

appVars == <<impl, view, file, fileType, filePreview, eegData, isAnalyzing,
             result, error, loads, calls, lastEvent>>
csvVars == <<csvDoc, csvParsed>>
sigVars == <<sigValues, sigRuns>>
vars == <<appVars, csvVars, sigVars>>

----------------------------------------------------------------------------
(* Bounds of the model. *)

MaxRows == 2        \* data rows of a CSV document
MaxCols == 2        \* signal columns of a CSV document
MaxLen == 3         \* samples of a signal handed to analyzeEEGSignal
RandomSteps == 3    \* Math.random() returns k / RandomSteps, k < RandomSteps
MaxLoads == 2       \* FileReader loads in flight
MaxCalls == 2       \* analysis calls in flight

----------------------------------------------------------------------------
(* Nullable values and strings. *)

Null == <<>>
Some(x) == <<x>>
IsNull(o) == o = <<>>
Val(o) == o[1]

Abs(a) == IF a < 0 THEN -a ELSE a

Digits == <<"0", "1", "2", "3", "4", "5", "6", "7", "8", "9">>
IsDigit(c) == \E i \in 1..10 : Digits[i] = c
DigitVal(c) == (CHOOSE i \in 1..10 : Digits[i] = c) - 1
IsSpace(c) == c \in {" ", "\t", "\n", "\r"}

\* String.prototype.endsWith / startsWith
EndsWith(s, suffix) ==
    /\ Len(s) >= Len(suffix)
    /\ SubSeq(s, Len(s) - Len(suffix) + 1, Len(s)) = suffix

StartsWith(s, prefix) ==
    /\ Len(s) >= Len(prefix)
    /\ SubSeq(s, 1, Len(prefix)) = prefix

\* String.prototype.trim
RECURSIVE TrimStart(_)
TrimStart(s) ==
    IF s # <<>> /\ IsSpace(Head(s)) THEN TrimStart(Tail(s)) ELSE s

RECURSIVE TrimEnd(_)
TrimEnd(s) ==
    IF s # <<>> /\ IsSpace(s[Len(s)]) THEN TrimEnd(SubSeq(s, 1, Len(s) - 1)) ELSE s

Trim(s) == TrimEnd(TrimStart(s))

\* String.prototype.split(sep) for a one-character separator: always at
\* least one piece, the pieces between the separators.
RECURSIVE SplitFrom(_, _, _)
SplitFrom(s, sep, piece) ==
    IF s = <<>> THEN <<piece>>
    ELSE IF Head(s) = sep THEN <<piece>> \o SplitFrom(Tail(s), sep, <<>>)
    ELSE SplitFrom(Tail(s), sep, Append(piece, Head(s)))

Split(s, sep) == SplitFrom(s, sep, <<>>)

\* The longest prefix of s made of digits, and its value.
RECURSIVE DigitRun(_)
DigitRun(s) ==
    IF s # <<>> /\ IsDigit(Head(s)) THEN <<Head(s)>> \o DigitRun(Tail(s)) ELSE <<>>

RECURSIVE DigitsValue(_, _)
DigitsValue(ds, acc) ==
    IF ds = <<>> THEN acc ELSE DigitsValue(Tail(ds), acc * 10 + DigitVal(Head(ds)))

\* parseFloat: leading white space is skipped, then the longest prefix that
\* is a decimal literal (sign, digits, fraction) is converted; Null is NaN.
\* The value is in tenths.
ParseFloat(str) ==
    LET s == TrimStart(str)
        neg == s # <<>> /\ Head(s) = "-"
        signed == s # <<>> /\ Head(s) \in {"-", "+"}
        body == IF signed THEN Tail(s) ELSE s
        ip == DigitRun(body)
        rest == SubSeq(body, Len(ip) + 1, Len(body))
        dot == rest # <<>> /\ Head(rest) = "."
        fp == IF dot THEN DigitRun(Tail(rest)) ELSE <<>>
        mag == DigitsValue(ip, 0) * 10 + (IF fp = <<>> THEN 0 ELSE DigitVal(fp[1]))
    IN  IF ip = <<>> /\ fp = <<>> THEN Null
        ELSE Some(IF neg THEN -mag ELSE mag)

----------------------------------------------------------------------------
(* parseCSV *)

\* lines.forEach((line, index) => ...): the values and time stamps pushed
\* for the lines from index i on. A time stamp index / 256 is kept as its
\* numerator.
RECURSIVE ParseLines(_, _)
ParseLines(lines, i) ==
    IF i > Len(lines) THEN [values |-> <<>>, timestamps |-> <<>>]
    ELSE LET parts == Split(lines[i], ",")
             val == ParseFloat(parts[1])
             more == ParseLines(lines, i + 1)
         IN  IF ~IsNull(val)
             THEN [values |-> <<Val(val)>> \o more.values,
                   timestamps |-> <<i - 1>> \o more.timestamps]
             ELSE more

parseCSV(content) ==
    LET lines == Split(Trim(content), "\n")
        parsed == ParseLines(lines, 1)
    IN  [values |-> parsed.values,
         timestamps |-> parsed.timestamps,
         samplingRate |-> 256,
         channel |-> "FP1-F7"]

----------------------------------------------------------------------------
(* CSV documents: the text a FileReader hands to parseCSV, built from its  *)
(* rows so that a property can speak of header rows, data rows, signal    *)
(* columns and the label column.                                          *)

HeaderStyles == {"none", "named", "numbered"}
SignalCells == {1350, -195}     \* 135 and -19.5
LabelCells == {50}              \* class 5 of the label column y

\* A number as the decimal numeral a CSV file holds.
RECURSIVE NatNumeral(_)
NatNumeral(n) ==
    IF n < 10 THEN <<Digits[n + 1]>>
    ELSE Append(NatNumeral(n \div 10), Digits[(n % 10) + 1])

Numeral(v) ==
    (IF v < 0 THEN <<"-">> ELSE <<>>)
    \o NatNumeral(Abs(v) \div 10)
    \o (IF Abs(v) % 10 = 0 THEN <<>> ELSE <<".", Digits[(Abs(v) % 10) + 1]>>)

RECURSIVE Join(_, _)
Join(pieces, sep) ==
    IF pieces = <<>> THEN <<>>
    ELSE IF Len(pieces) = 1 THEN pieces[1]
    ELSE pieces[1] \o <<sep>> \o Join(Tail(pieces), sep)

CsvDocs ==
    {[header |-> h, label |-> l, rows |-> rs] :
        h \in HeaderStyles, l \in {Null} \cup {Some(y) : y \in LabelCells},
        rs \in UNION {[1..r -> [1..c -> SignalCells]] : r \in 0..MaxRows, c \in 1..MaxCols}}

SignalCols(doc) == IF doc.rows = <<>> THEN 1 ELSE Len(doc.rows[1])

\* The header row X1,...,Xn,y of the sample format, or the column numbers
\* 0,...,n-1,y.
HeaderRow(doc) ==
    [j \in 1..SignalCols(doc) |->
        IF doc.header = "named" THEN <<"X">> \o NatNumeral(j) ELSE NatNumeral(j - 1)]
    \o (IF doc.label # Null THEN <<<<"y">>>> ELSE <<>>)

DataRow(doc, i) ==
    [j \in 1..Len(doc.rows[i]) |-> Numeral(doc.rows[i][j])]
    \o (IF doc.label # Null THEN <<Numeral(Val(doc.label))>> ELSE <<>>)

SerializeCSV(doc) ==
    LET hdr == IF doc.header = "none" THEN <<>> ELSE <<Join(HeaderRow(doc), ",")>>
        body == [i \in 1..Len(doc.rows) |-> Join(DataRow(doc, i), ",")]
    IN  Join(hdr \o body, "\n") \o <<"\n">>

----------------------------------------------------------------------------
(* The specification of parseCSV as a function of a document's text. *)

AppIdle ==
    /\ impl = "local" /\ view = "analyze"
    /\ file = Null /\ fileType = Null /\ filePreview = Null /\ eegData = Null
    /\ isAnalyzing = FALSE /\ result = Null /\ error = Null
    /\ loads = EmptyBag /\ calls = <<>>
    /\ lastEvent = [op |-> "init"]

CsvIdle == csvDoc = Null /\ csvParsed = Null
SigIdle == sigValues = <<>> /\ sigRuns = <<>>

InitCSV ==
    /\ AppIdle /\ SigIdle
    /\ csvDoc \in {Some(d) : d \in CsvDocs}
    /\ csvParsed = Null

ParseDocument ==
    /\ csvParsed = Null
    /\ csvParsed' = Some(parseCSV(SerializeCSV(Val(csvDoc))))
    /\ UNCHANGED <<csvDoc, appVars, sigVars>>

NextCSV == ParseDocument

SpecCSV == InitCSV /\ [][NextCSV]_vars

----------------------------------------------------------------------------
(* analyzeEEGSignal, local build: statistics and threshold labelling.     *)
(* With n samples of sum S (in tenths) the variance is                    *)
(* VarNum / (10 * n)^2, so std > t tenths exactly when                    *)
(* VarNum > t^2 * n^2.                                                    *)

SEIZURE == "Seizure"
NON_SEIZURE == "Non-Seizure"
UNCERTAIN == "Uncertain"
PredictionLabel == {SEIZURE, NON_SEIZURE, UNCERTAIN}

bands == <<"Delta", "Theta", "Alpha", "Beta", "Gamma">>

RECURSIVE Sum(_)
Sum(vs) == IF vs = <<>> THEN 0 ELSE Head(vs) + Sum(Tail(vs))

RECURSIVE SumSq(_)
SumSq(vs) == IF vs = <<>> THEN 0 ELSE Head(vs) * Head(vs) + SumSq(Tail(vs))

\* values.length || 1
LengthOr1(vs) == IF Len(vs) = 0 THEN 1 ELSE Len(vs)

\* n * sum (b - mean)^2 * n, that is variance * (10 n)^2, with mean = S / n
VarNum(vs) == LengthOr1(vs) * SumSq(vs) - Sum(vs) * Sum(vs)

\* Math.sqrt(variance) > t / 10
StdGreater(vs, t) == VarNum(vs) > t * t * LengthOr1(vs) * LengthOr1(vs)

\* Math.max(...values.map(Math.abs)) > t / 10; the maximum of no value is
\* -Infinity, which is greater than nothing.
MaxAbsGreater(vs, t) == \E i \in 1..Len(vs) : Abs(vs[i]) > t

\* maxAbs > 0.8 || std > 0.3
isSeizure(vs) == MaxAbsGreater(vs, 8) \/ StdGreater(vs, 3)

\* Math.random(): k / RandomSteps for a k the caller chooses
Randoms == 0..(RandomSteps - 1)

\* The number num / den (a confidence is a percentage).
Ratio(num, den) == [num |-> num, den |-> den]

\* The next decimal digit of a square root: root is the integer square root
\* of some N and rem = N - root^2; the result is the same for 100 * N.
SqrtStep(root, rem) ==
    LET d == CHOOSE d \in 0..9 :
                /\ (20 * root + d) * d <= 100 * rem
                /\ d < 9 => (20 * root + d + 1) * (d + 1) > 100 * rem
    IN  [root |-> 10 * root + d, rem |-> 100 * rem - (20 * root + d) * d]

\* The largest s in lo..hi with s * s <= n.
RECURSIVE SqrtSearch(_, _, _)
SqrtSearch(n, lo, hi) ==
    IF lo >= hi THEN lo
    ELSE LET mid == (lo + hi + 1) \div 2
         IN  IF mid * mid <= n THEN SqrtSearch(n, mid, hi) ELSE SqrtSearch(n, lo, mid - 1)

ISqrt(n) == SqrtSearch(n, 0, 46340)

\* floor(2000 * sqrt(n)): three more decimal digits of the root, doubled
Floor2000Sqrt(n) ==
    LET r0 == ISqrt(n)
        r1 == SqrtStep(r0, n - r0 * r0)
        r2 == SqrtStep(r1.root, r1.rem)
        r3 == SqrtStep(r2.root, r2.rem)
    IN  2 * r3.root + (IF r3.rem > r3.root THEN 1 ELSE 0)

\* The integer nearest to a / b for b > 0, a half rounded away from zero,
\* as Number.prototype.toFixed rounds.
RoundDiv(a, b) ==
    IF a >= 0 THEN (2 * a + b) \div (2 * b) ELSE -((2 * (-a) + b) \div (2 * b))

\* parseFloat(mean.toFixed(4)), in units of 1 / 10000: mean is S / (10 n)
meanFixed4(vs) == RoundDiv(1000 * Sum(vs), LengthOr1(vs))

\* Math.floor(std * 10000)
stdFloored4(vs) == Floor2000Sqrt(VarNum(vs)) \div (2 * LengthOr1(vs))

\* parseFloat(std.toFixed(4)), in units of 1 / 10000: std is
\* sqrt(VarNum) / (10 n), so 10000 std is 2000 sqrt(VarNum) / (2 n)
stdFixed4(vs) == (Floor2000Sqrt(VarNum(vs)) + LengthOr1(vs)) \div (2 * LengthOr1(vs))

\* The result of a call whose two Math.random() calls return kBand /
\* RandomSteps (line 88) and kConf / RandomSteps (line 91).
analyzeEEGSignalLocal(data, kBand, kConf) ==
    LET values == data.values
        dominantBand == bands[((kBand * Len(bands)) \div RandomSteps) + 1]
        seizure == isSeizure(values)
        \* (0.85 + r * 0.1) * 100 and (0.92 + r * 0.05) * 100
        confidence == IF seizure
                      THEN Ratio(85 * RandomSteps + 10 * kConf, RandomSteps)
                      ELSE Ratio(92 * RandomSteps + 5 * kConf, RandomSteps)
    IN  [prediction |-> IF seizure THEN SEIZURE ELSE NON_SEIZURE,
         confidence |-> Some(confidence),
         signalQuality |-> Some("Good"),
         dominantBand |-> Some(dominantBand),
         stats |-> [mean |-> Some(Ratio(meanFixed4(values), 10000)),
                    std |-> Some(Ratio(stdFixed4(values), 10000)),
                    entropy |-> Some(Ratio(74, 100))],
         frequencyAnalysis |-> Null,
         seizureClassification |-> Null]

----------------------------------------------------------------------------
(* The specification of the local analyzeEEGSignal as a function of the   *)
(* sample values: two calls on the same values.                           *)

Samples == {-7000, -5, 5, 1350, 9000}    \* -700, -0.5, 0.5, 135, 900

SampleSeqs == UNION {[1..n -> Samples] : n \in 0..MaxLen}

EEGDataOf(vs) ==
    [values |-> vs, timestamps |-> [i \in 1..Len(vs) |-> i - 1],
     samplingRate |-> 256, channel |-> "FP1-F7"]

InitSignal ==
    /\ AppIdle /\ CsvIdle
    /\ sigValues \in SampleSeqs
    /\ sigRuns = <<>>

AnalyzeSignal ==
    /\ Len(sigRuns) < 2
    /\ \E kBand \in Randoms, kConf \in Randoms :
         sigRuns' = Append(sigRuns, analyzeEEGSignalLocal(EEGDataOf(sigValues), kBand, kConf))
    /\ UNCHANGED <<sigValues, appVars, csvVars>>

NextSignal == AnalyzeSignal

SpecSignal == InitSignal /\ [][NextSignal]_vars

----------------------------------------------------------------------------
(* Claims about the local analyzeEEGSignal (SpecSignal). *)

\* min(std, cap) * 10 * n = m for an integer m: std = sqrt(VarNum) / (10 n)
MinStdIs(vs, capTenths, m) ==
    LET c == capTenths * LengthOr1(vs)
        r == ISqrt(VarNum(vs))
    IN  IF VarNum(vs) >= c * c THEN m = c
        ELSE r * r = VarNum(vs) /\ m = r

\* The README's confidence: 0.85 + (min(std, 500) / 500) * 0.1 for a
\* Seizure, 0.92 + (1 - min(std, 300) / 300) * 0.05 for a Non-Seizure, as
\* a percentage.
ReadmeConfidence(vs, run) ==
    LET n == LengthOr1(vs)
        num == Val(run.confidence).num
        den == Val(run.confidence).den
    IN  IF run.prediction = SEIZURE
        THEN MinStdIs(vs, 5000, ((num - 85 * den) * 500 * n) \div den)
             /\ ((num - 85 * den) * 500 * n) % den = 0
        ELSE MinStdIs(vs, 3000, 3000 * n - ((num - 92 * den) * 600 * n) \div den)
             /\ ((num - 92 * den) * 600 * n) % den = 0

\* C3: the label is Seizure exactly when the maximum absolute sample is
\* greater than 800 or the standard deviation is greater than 350.
C3_SeizureIffReadmeThresholds ==
    \A i \in 1..Len(sigRuns) :
        (sigRuns[i].prediction = SEIZURE)
            <=> (MaxAbsGreater(sigValues, 8000) \/ StdGreater(sigValues, 3500))

\* C4: the confidence is the README's function of the standard deviation,
\* within [85, 95] for a Seizure and [92, 97] for a Non-Seizure, and two
\* analyses of the same values report the same confidence.
C4_ConfidenceIsReadmeFunction ==
    /\ \A i \in 1..Len(sigRuns) : ReadmeConfidence(sigValues, sigRuns[i])
    /\ \A i \in 1..Len(sigRuns) :
         LET c == Val(sigRuns[i].confidence)
         IN  IF sigRuns[i].prediction = SEIZURE
             THEN 85 * c.den <= c.num /\ c.num <= 95 * c.den
             ELSE 92 * c.den <= c.num /\ c.num <= 97 * c.den
    /\ \A i, j \in 1..Len(sigRuns) : sigRuns[i].confidence = sigRuns[j].confidence

\* n^2 times the population variance of vs (in tenths squared), by the
\* identity n * sum (v_i - mean)^2 = sum over pairs i < j of (v_i - v_j)^2.
RECURSIVE PairSqDiffs(_)
PairSqDiffs(vs) ==
    IF vs = <<>> THEN 0
    ELSE LET RECURSIVE Against(_)
             Against(ws) ==
                 IF ws = <<>> THEN 0
                 ELSE (Head(vs) - Head(ws)) * (Head(vs) - Head(ws)) + Against(Tail(ws))
         IN  Against(Tail(vs)) + PairSqDiffs(Tail(vs))

\* m / 10000 is x rounded to 4 decimals, where 2000 sqrt(q) / (2 n) is
\* 10000 x: m is within one half of it.
RoundsStd(m, q, n) ==
    /\ m >= 0
    /\ (2 * m - 1) * n <= Floor2000Sqrt(q)
    /\ Floor2000Sqrt(q) < (2 * m + 1) * n

\* C11: the local analyzeEEGSignal returns stats.mean equal to the
\* arithmetic mean of the values and stats.std equal to their population
\* standard deviation, each rounded to 4 decimal places; for an empty list
\* mean 0, std 0 and NON_SEIZURE.
C11_MeanAndStd ==
    \A i \in 1..Len(sigRuns) :
        LET n == Len(sigValues)
            mean == Val(sigRuns[i].stats.mean)
            std == Val(sigRuns[i].stats.std)
        IN  /\ mean.den = 10000 /\ std.den = 10000
            /\ IF n = 0
               THEN mean.num = 0 /\ std.num = 0 /\ sigRuns[i].prediction = NON_SEIZURE
               ELSE \* |mean.num / 10000 - S / (10 n)| <= 1 / 20000
                    /\ Abs(2 * n * mean.num - 2000 * Sum(sigValues)) <= n
                    \* std is sqrt(n^2 variance) / (10 n) in units
                    /\ RoundsStd(std.num, PairSqDiffs(sigValues), n)

C11_Witness ==
    /\ Len(sigRuns) = 2
    /\ Len(sigValues) = 3
    /\ (1000 * Sum(sigValues)) % 3 # 0
    /\ Val(sigRuns[1].stats.std).num > 0

\* C10: two calls of analyzeEEGSignal with the same values return the same
\* dominantBand.
C10_DominantBandDetermined ==
    \A i, j \in 1..Len(sigRuns) : sigRuns[i].dominantBand = sigRuns[j].dominantBand

----------------------------------------------------------------------------
(* Answers of the analysis back ends: the Gemini model (local build) and   *)
(* the Flask server (remote build). A body is the text of the answer:     *)
(* absent, not JSON, the JSON null, or a JSON object whose fields may be  *)
(* missing.                                                               *)

NoFields ==
    [prediction |-> Null, confidence |-> Null, signalQuality |-> Null,
     dominantBand |-> Null, stats |-> Null, frequencyAnalysis |-> Null,
     seizureClassification |-> Null, error |-> Null]

SomeStats ==
    [mean |-> Some(Ratio(1, 2)), std |-> Some(Ratio(251, 2)), entropy |-> Some(Ratio(13, 20))]

\* band powers in microvolts squared
SomeFrequencyAnalysis ==
    [delta |-> Ratio(226, 5), theta |-> Ratio(201, 10), alpha |-> Ratio(15, 1),
     beta |-> Ratio(12, 1), gamma |-> Ratio(77, 10)]

SomeClassification ==
    [isSeizure |-> TRUE, type |-> "Focal Onset", onsetType |-> Some("Focal"),
     motorSubtype |-> Some("Tonic-Clonic"), awarenessStatus |-> Some("Impaired"),
     specificTypes |-> <<"Focal to Bilateral Tonic-Clonic">>,
     motorTypes |-> <<"Tonic-Clonic">>, nonMotorTypes |-> <<>>,
     ilaClassification |-> Some("Focal Impaired Awareness Seizure")]

NoSeizureClassification ==
    [isSeizure |-> FALSE, type |-> "No Seizure", onsetType |-> Null,
     motorSubtype |-> Null, awarenessStatus |-> Null,
     specificTypes |-> <<>>, motorTypes |-> <<>>, nonMotorTypes |-> <<>>,
     ilaClassification |-> Null]

RawAnswers ==
    { [NoFields EXCEPT !.prediction = Some("Seizure"), !.confidence = Some(Ratio(171, 2)),
                       !.signalQuality = Some("Fair"), !.dominantBand = Some("Delta"),
                       !.stats = Some(SomeStats),
                       !.frequencyAnalysis = Some(SomeFrequencyAnalysis),
                       !.seizureClassification = Some(SomeClassification)],
      [NoFields EXCEPT !.prediction = Some("Non-Seizure"), !.confidence = Some(Ratio(19, 20)),
                       !.signalQuality = Some("Good"), !.dominantBand = Some("Theta"),
                       !.stats = Some(SomeStats),
                       !.seizureClassification = Some(NoSeizureClassification)],
      [NoFields EXCEPT !.prediction = Some("Uncertain"), !.confidence = Some(Ratio(0, 1)),
                       !.dominantBand = Some("Beta"), !.stats = Some(SomeStats)],
      [NoFields EXCEPT !.prediction = Some("Seizure"), !.stats = Some(SomeStats)],
      [NoFields EXCEPT !.error = Some("No values provided")],
      NoFields }

Bodies ==
    {[kind |-> k, obj |-> Null] : k \in {"absent", "invalid", "null"}}
    \cup {[kind |-> "object", obj |-> Some(a)] : a \in RawAnswers}

\* response.ok and the body of the answer
Responses == [ok : BOOLEAN, body : Bodies]

Returned(r) == [ok |-> TRUE, result |-> Some(r), thrown |-> ""]
\* throw new Error(): an Error without a message
ThrownWithoutText(msg) == [ok |-> FALSE, result |-> Null, thrown |-> ""]

Thrown(msg) == [ok |-> FALSE, result |-> Null, thrown |-> msg]

\* x || d
OrElse(x, d) == IF x = Null THEN d ELSE x

\* prediction: answer.prediction (the label is taken from the answer as is)
PredictionPassedThrough(answer) ==
    IF answer.prediction = Null THEN "undefined" ELSE Val(answer.prediction)

\* answer.prediction === 'Seizure' ? PredictionLabel.SEIZURE : PredictionLabel.NON_SEIZURE
PredictionOf(answer) ==
    IF answer.prediction = Some("Seizure") THEN SEIZURE ELSE NON_SEIZURE

----------------------------------------------------------------------------
(* analyzeEEGImage, local build *)

DataPrefix == <<"d", "a", "t", "a", ":">>
Base64Mark == <<";", "b", "a", "s", "e", "6", "4", ",">>

SplitOrUndefined(s, sep, k) ==
    IF Len(Split(s, sep)) >= k THEN Some(Split(s, sep)[k]) ELSE Null

analyzeEEGImageLocalRequest(base64Image) ==
    [url |-> "gemini-3-flash-preview", method |-> "generateContent",
     body |-> [mimeType |-> "image/jpeg",
               data |-> SplitOrUndefined(base64Image, ",", 2)]]

\* x || d for a number: undefined and 0 are falsy
NumberOr(x, d) == IF x = Null \/ Val(x).num = 0 THEN Some(d) ELSE x

\* rawJson.stats?.mean || 0, std || 0, entropy || 0.75
LocalImageStats(stats) ==
    [mean |-> NumberOr(IF stats = Null THEN Null ELSE Val(stats).mean, Ratio(0, 1)),
     std |-> NumberOr(IF stats = Null THEN Null ELSE Val(stats).std, Ratio(0, 1)),
     entropy |-> NumberOr(IF stats = Null THEN Null ELSE Val(stats).entropy, Ratio(75, 100))]

\* (rawJson.confidence || 0.9) * 100: a confidence of 0 is falsy
LocalImageConfidence(c) ==
    IF c = Null \/ Val(c).num = 0 THEN Ratio(90, 1)
    ELSE Ratio(Val(c).num * 100, Val(c).den)

analyzeEEGImageLocal(response) ==
    LET body == response.body
        rawJson == IF body.kind = "absent" THEN NoFields ELSE Val(body.obj)
    IN  IF body.kind = "invalid" THEN Thrown("SyntaxError")
        ELSE IF body.kind = "null" THEN Thrown("TypeError")
        ELSE Returned(
            [prediction |-> PredictionOf(rawJson),
             confidence |-> Some(LocalImageConfidence(rawJson.confidence)),
             signalQuality |-> OrElse(rawJson.signalQuality, Some("Good")),
             dominantBand |-> OrElse(rawJson.dominantBand, Some("Alpha")),
             stats |-> LocalImageStats(rawJson.stats),
             frequencyAnalysis |-> Null,
             seizureClassification |-> Null])

----------------------------------------------------------------------------
(* analyzeEEGImage and analyzeEEGSignal, remote build *)

API_BASE_URL == "http://localhost:5000"

\* A request is the URL (base and path), the method and the body; a body is
\* the JSON value that JSON.stringify writes, which for finite numbers,
\* strings and arrays of them is the value given.

analyzeEEGImageRemoteRequest(base64Image) ==
    [url |-> <<API_BASE_URL, "/api/analyze/image">>, method |-> "POST",
     body |-> [image |-> base64Image]]

\* body: JSON.stringify(data)
analyzeEEGSignalRequestWholeData(data) ==
    [url |-> <<API_BASE_URL, "/api/analyze/csv">>, method |-> "POST", body |-> data]

analyzeEEGSignalRemoteRequest(data) ==
    [url |-> <<API_BASE_URL, "/api/analyze/csv">>, method |-> "POST",
     body |-> [values |-> data.values,
               samplingRate |-> data.samplingRate,
               channel |-> data.channel]]

\* What both remote functions do with the answer of fetch.
RemoteResult(response, defaultError) ==
    LET body == response.body
    IN  IF body.kind \in {"absent", "invalid"} THEN Thrown("SyntaxError")
        ELSE IF body.kind = "null" THEN Thrown("TypeError")
        ELSE IF ~response.ok
             THEN Thrown(Val(OrElse(Val(body.obj).error, Some(defaultError))))
        ELSE IF Val(body.obj).stats = Null THEN Thrown("TypeError")
        ELSE LET data == Val(body.obj)
             IN  Returned(
                    [prediction |-> PredictionOf(data),
                     confidence |-> data.confidence,
                     signalQuality |-> data.signalQuality,
                     dominantBand |-> data.dominantBand,
                     stats |-> [mean |-> Val(data.stats).mean,
                                std |-> Val(data.stats).std,
                                entropy |-> Val(data.stats).entropy],
                     frequencyAnalysis |-> data.frequencyAnalysis,
                     seizureClassification |-> data.seizureClassification])

analyzeEEGImageRemote(response) == RemoteResult(response, "Image analysis failed")

analyzeEEGSignalRemote(response) == RemoteResult(response, "CSV analysis failed")

----------------------------------------------------------------------------
(* App: the files a user can choose. *)

CsvSuffix == <<".", "c", "s", "v">>
ImagePrefix == <<"i", "m", "a", "g", "e", "/">>

TextCsv == <<"t", "e", "x", "t", "/", "c", "s", "v">>
TextPlain == <<"t", "e", "x", "t", "/", "p", "l", "a", "i", "n">>
ImagePng == <<"i", "m", "a", "g", "e", "/", "p", "n", "g">>

\* name, MIME type, the content read as text and the content in base64
AppFiles ==
    { [name |-> <<"e", "e", "g", ".", "c", "s", "v">>, type |-> TextCsv,
       text |-> SerializeCSV([header |-> "named", label |-> Some(50),
                              rows |-> << <<1350, -195>>, <<-195, 1350>> >>]),
       base64 |-> <<"W", "D", "E", "=">>],
      [name |-> <<"n", ".", "c", "s", "v">>, type |-> TextCsv,
       text |-> <<"a", ",", "b", "\n", "c", ",", "d">>,
       base64 |-> <<"Y", "S", "w", "=">>],
      [name |-> <<"s", ".", "p", "n", "g">>, type |-> ImagePng,
       text |-> <<"P", "N", "G">>,
       base64 |-> <<"i", "V", "B", "O">>],
      [name |-> <<"s", ".", "c", "s", "v">>, type |-> ImagePng,
       text |-> <<"P", "N", "G">>,
       base64 |-> <<"i", "V", "B", "O">>],
      [name |-> <<"n", ".", "t", "x", "t">>, type |-> TextPlain,
       text |-> <<"1", "3", "5">>,
       base64 |-> <<"M", "T", "M", "=">>],
      [name |-> <<"E", ".", "C", "S", "V">>, type |-> <<>>,
       text |-> <<"1", "3", "5">>,
       base64 |-> <<"M", "T", "M", "=">>] }

\* FileReader.readAsText and FileReader.readAsDataURL
readAsText(f) == f.text
readAsDataURL(f) == DataPrefix \o f.type \o Base64Mark \o f.base64

----------------------------------------------------------------------------
(* App: state and handlers *)

Views == {"analyze", "prerequisites", "research"}

ERR_UPLOAD == "Please upload a .csv file or an image (.png, .jpg, .jpeg)"
ERR_PARSE == "Failed to parse EEG CSV data."
ERR_ANALYSIS == "Analysis failed. Check your connection or API key."

Init ==
    /\ impl \in {"local", "remote"}
    /\ view = "analyze"
    /\ file = Null /\ fileType = Null /\ filePreview = Null /\ eegData = Null
    /\ isAnalyzing = FALSE /\ result = Null /\ error = Null
    /\ loads = EmptyBag /\ calls = <<>>
    /\ lastEvent = [op |-> "init"]
    /\ CsvIdle /\ SigIdle

\* setView from the navigation bar
SetView ==
    /\ \E v \in Views \ {view} : view' = v
    /\ lastEvent' = [op |-> "setView"]
    /\ UNCHANGED <<impl, file, fileType, filePreview, eegData, isAnalyzing,
                   result, error, loads, calls, csvVars, sigVars>>

\* uploadedFile.type === 'text/csv'
isCsvFileByType(f) == f.type = TextCsv

isCsvFile(f) == EndsWith(f.name, CsvSuffix)
isImageFile(f) == StartsWith(f.type, ImagePrefix)

\* handleFileUpload: the file input exists while no file is selected. The
\* change event carries a file or none.
handleFileUpload ==
    /\ view = "analyze" /\ file = Null
    /\ BagCardinality(loads) < MaxLoads
    /\ \E picked \in {Null} \cup {Some(f) : f \in AppFiles} :
        /\ lastEvent' = [op |-> "upload", picked |-> picked]
        /\ IF picked = Null
           THEN UNCHANGED <<file, fileType, error, result, loads>>
           ELSE LET uploadedFile == Val(picked)
                    isCsv == isCsvFile(uploadedFile)
                    isImage == isImageFile(uploadedFile)
                IN  IF ~isCsv /\ ~isImage
                    THEN /\ error' = Some(ERR_UPLOAD)
                         /\ UNCHANGED <<file, fileType, result, loads>>
                    ELSE /\ file' = Some(uploadedFile)
                         /\ fileType' = Some(IF isCsv THEN "csv" ELSE "image")
                         /\ error' = Null
                         /\ result' = Null
                         /\ loads' = loads (+) SetToBag({[file |-> uploadedFile, isCsv |-> isCsv]})
    /\ UNCHANGED <<impl, view, filePreview, eegData, isAnalyzing, calls, csvVars, sigVars>>

RemoveAt(s, i) == SubSeq(s, 1, i - 1) \o SubSeq(s, i + 1, Len(s))

\* reader.onload of a load in flight. parseCSV does not throw on a string,
\* so the catch branch is never taken.
readerOnload ==
    \E load \in BagToSet(loads) :
            /\ IF load.isCsv
               THEN /\ eegData' = Some(parseCSV(readAsText(load.file)))
                    /\ UNCHANGED filePreview
               ELSE /\ filePreview' = Some(readAsDataURL(load.file))
                    /\ UNCHANGED eegData
            /\ loads' = loads (-) SetToBag({load})
            /\ lastEvent' = [op |-> "onload", load |-> load]
            /\ UNCHANGED <<impl, view, file, fileType, isAnalyzing, result, error,
                           calls, csvVars, sigVars>>

\* The read fails: no onerror handler is set, nothing happens.
readerError ==
    \E load \in BagToSet(loads) :
        /\ loads' = loads (-) SetToBag({load})
        /\ lastEvent' = [op |-> "readerError"]
        /\ UNCHANGED <<impl, view, file, fileType, filePreview, eegData, isAnalyzing,
                       result, error, calls, csvVars, sigVars>>

\* if (x) for a nullable string: null and "" are falsy
Truthy(str) == str # Null /\ Val(str) # <<>>

\* The requests a service function sends when it is called.
ServiceRequests(svc, arg) ==
    IF impl = "remote"
    THEN IF svc = "analyzeEEGSignal"
         THEN <<analyzeEEGSignalRemoteRequest(arg)>>
         ELSE <<analyzeEEGImageRemoteRequest(arg)>>
    ELSE IF svc = "analyzeEEGSignal"
         THEN <<>>
         ELSE <<analyzeEEGImageLocalRequest(arg)>>

ServiceCall(svc, arg) ==
    [svc |-> svc, arg |-> arg, requests |-> ServiceRequests(svc, arg)]

\* if (eegData) ... else if (filePreview) ...
AnalyzeTypeBlind(ft, data, preview) ==
    IF data # Null THEN <<ServiceCall("analyzeEEGSignal", Val(data))>>
    ELSE IF Truthy(preview) THEN <<ServiceCall("analyzeEEGImage", Val(preview))>>
    ELSE <<>>

\* The service calls of one handleAnalyze invocation: the if / else if of
\* the try block.
AnalyzeCalls(ft, data, preview) ==
    IF ft = Some("csv") /\ data # Null
    THEN <<ServiceCall("analyzeEEGSignal", Val(data))>>
    ELSE IF ft = Some("image") /\ Truthy(preview)
    THEN <<ServiceCall("analyzeEEGImage", Val(preview))>>
    ELSE <<>>

\* handleAnalyze up to its await: the Analyze button exists while a file is
\* selected and there is no result, and is disabled while isAnalyzing. With
\* no service to call the function runs through finally at once.
handleAnalyze ==
    /\ view = "analyze" /\ file # Null /\ result = Null /\ ~isAnalyzing
    /\ Len(calls) < MaxCalls
    /\ LET called == AnalyzeCalls(fileType, eegData, filePreview)
       IN  /\ error' = Null
           /\ isAnalyzing' = (called # <<>>)
           /\ calls' = calls \o called
           /\ lastEvent' = [op |-> "analyze", called |-> called]
    /\ UNCHANGED <<impl, view, file, fileType, filePreview, eegData, result,
                   loads, csvVars, sigVars>>

\* How a service call in flight can end: what it returns or throws, for
\* every answer of its back end. A local analyzeEEGSignal has no back end
\* and draws two random numbers.
Outcomes(call) ==
    IF call.requests = <<>>
    THEN {[out |-> Returned(analyzeEEGSignalLocal(call.arg, kBand, kConf)), response |-> Null] :
            kBand \in Randoms, kConf \in Randoms}
    ELSE {[out |-> Thrown("NetworkError"), response |-> Null]}
         \cup {[out |-> IF impl = "local" THEN analyzeEEGImageLocal(r)
                        ELSE IF call.svc = "analyzeEEGImage" THEN analyzeEEGImageRemote(r)
                        ELSE analyzeEEGSignalRemote(r),
                response |-> Some(r)] :
               r \in IF impl = "local" THEN {r \in Responses : r.ok} ELSE Responses}

\* handleAnalyze after its await, the service having returned

analysisResolves ==
    \E i \in 1..Len(calls) : \E o \in Outcomes(calls[i]) :
        /\ o.out.ok
        /\ result' = o.out.result
        /\ isAnalyzing' = FALSE
        /\ calls' = RemoveAt(calls, i)
        /\ lastEvent' = [op |-> "resolve", call |-> calls[i], response |-> o.response,
                         value |-> Val(o.out.result)]
        /\ UNCHANGED <<impl, view, file, fileType, filePreview, eegData, error,
                       loads, csvVars, sigVars>>

\* catch without finally: isAnalyzing stays as it is
analysisRejectsWithoutFinally ==
    \E i \in 1..Len(calls) : \E o \in Outcomes(calls[i]) :
        /\ ~o.out.ok
        /\ error' = Some(ERR_ANALYSIS)
        /\ calls' = RemoveAt(calls, i)
        /\ lastEvent' = [op |-> "reject", call |-> calls[i], thrown |-> o.out.thrown]
        /\ UNCHANGED <<impl, view, file, fileType, filePreview, eegData, result,
                       isAnalyzing, loads, csvVars, sigVars>>

\* handleAnalyze after its await, the service having thrown: catch, finally
analysisRejects ==
    \E i \in 1..Len(calls) : \E o \in Outcomes(calls[i]) :
        /\ ~o.out.ok
        /\ error' = Some(ERR_ANALYSIS)
        /\ isAnalyzing' = FALSE
        /\ calls' = RemoveAt(calls, i)
        /\ lastEvent' = [op |-> "reject", call |-> calls[i], thrown |-> o.out.thrown]
        /\ UNCHANGED <<impl, view, file, fileType, filePreview, eegData, result,
                       loads, csvVars, sigVars>>

\* a reset that also calls setIsAnalyzing(false)
resetAndStopAnalyzing ==
    /\ view = "analyze" /\ file # Null
    /\ file' = Null /\ fileType' = Null /\ filePreview' = Null /\ eegData' = Null
    /\ result' = Null /\ error' = Null /\ isAnalyzing' = FALSE
    /\ lastEvent' = [op |-> "reset"]
    /\ UNCHANGED <<impl, view, loads, calls, csvVars, sigVars>>

\* reset: Change File (a file is selected) and Start New Analysis (a result
\* is shown)
reset ==
    /\ view = "analyze" /\ file # Null
    /\ file' = Null /\ fileType' = Null /\ filePreview' = Null /\ eegData' = Null
    /\ result' = Null /\ error' = Null
    /\ lastEvent' = [op |-> "reset"]
    /\ UNCHANGED <<impl, view, isAnalyzing, loads, calls, csvVars, sigVars>>

----------------------------------------------------------------------------
(* What the analyze view renders of the state *)

\* {view === 'analyze' && ...}, {!file ? ... : ...}, {result && ...}
ResultShown == view = "analyze" /\ file # Null /\ result # Null

\* {result.dominantBand === band && heading}, in the order of the source
BandHeadings ==
    << [band |-> "Delta", heading |-> "Generalized or Focal Onset Seizure"],
       [band |-> "Theta", heading |-> "Temporal Lobe / Focal Aware Seizure"],
       [band |-> "Alpha", heading |-> "Atypical / Unknown Onset Seizure"],
       [band |-> "Beta", heading |-> "Motor / Awareness-Related Seizure"],
       [band |-> "Gamma", heading |-> "Critical High-Frequency Discharge"] >>

\* The headings under Seizure Type Assessment, which is part of the block
\* {result.frequencyAnalysis && (...)}
SeizureTypeAssessment(r) ==
    IF r.frequencyAnalysis = Null THEN <<>>
    ELSE LET shown == SelectSeq(BandHeadings, LAMBDA e : r.dominantBand = Some(e.band))
         IN  [i \in 1..Len(shown) |-> shown[i].heading]

\* The four fields of a classification that the panel prints
PanelFields(c) ==
    [onset |-> c.onsetType, awareness |-> c.awarenessStatus,
     motor |-> c.motorSubtype, ilae |-> c.ilaClassification]

\* {result.seizureClassification && (...)}
PanelOfAnyPrediction(r) ==
    IF r.seizureClassification # Null
    THEN Some(PanelFields(Val(r.seizureClassification)))
    ELSE Null

\* {result.prediction === PredictionLabel.SEIZURE && result.seizureClassification && (...)}
SeizureClassificationPanel(r) ==
    IF r.prediction = SEIZURE /\ r.seizureClassification # Null
    THEN Some(PanelFields(Val(r.seizureClassification)))
    ELSE Null

Next ==
    \/ SetView
    \/ handleFileUpload
    \/ readerOnload
    \/ readerError
    \/ handleAnalyze
    \/ analysisResolves
    \/ analysisRejects
    \/ reset

Spec == Init /\ [][Next]_vars

----------------------------------------------------------------------------
(* Claims about App and the services it calls (Spec). Every step of Spec   *)
(* records its handler in lastEvent', so a property of a handler is a     *)
(* property of the steps with that lastEvent'.op.                         *)

Calls(called, svc) == \E i \in 1..Len(called) : called[i].svc = svc

\* C1: one invocation of handleAnalyze calls at most one analysis service,
\* analyzeEEGSignal exactly when fileType is 'csv' and eegData is loaded,
\* analyzeEEGImage exactly when fileType is 'image' and filePreview is
\* loaded; when the called service resolves, its return value is stored in
\* result.
C1_AnalyzeCallsOneService ==
    [][ /\ lastEvent'.op = "analyze" =>
            /\ Len(lastEvent'.called) <= 1
            /\ Calls(lastEvent'.called, "analyzeEEGSignal")
                 <=> (fileType = Some("csv") /\ eegData # Null)
            /\ Calls(lastEvent'.called, "analyzeEEGImage")
                 <=> (fileType = Some("image") /\ filePreview # Null)
            /\ \A i \in 1..Len(lastEvent'.called) :
                 lastEvent'.called[i].arg =
                    IF lastEvent'.called[i].svc = "analyzeEEGSignal"
                    THEN Val(eegData) ELSE Val(filePreview)
        /\ lastEvent'.op = "resolve" => result' = Some(lastEvent'.value) ]_vars

C1_Witness ==
    /\ lastEvent.op = "resolve"
    /\ lastEvent.call.svc = "analyzeEEGImage"
    /\ result = Some(lastEvent.value)

\* C2: handleFileUpload accepts a file exactly when its name ends with
\* '.csv' or its MIME type starts with 'image/' (both: CSV). Any other file
\* sets the upload error and leaves file, fileType, filePreview, eegData and
\* result unchanged; an accepted file sets file and fileType and clears
\* error and result.
C2_UploadAcceptsCsvOrImage ==
    [][ (lastEvent'.op = "upload" /\ lastEvent'.picked # Null) =>
            LET f == Val(lastEvent'.picked)
                csv == EndsWith(f.name, <<".", "c", "s", "v">>)
                image == StartsWith(f.type, <<"i", "m", "a", "g", "e", "/">>)
            IN  IF csv \/ image
                THEN /\ file' = Some(f)
                     /\ fileType' = Some(IF csv THEN "csv" ELSE "image")
                     /\ error' = Null
                     /\ result' = Null
                ELSE /\ error' = Some(ERR_UPLOAD)
                     /\ UNCHANGED <<file, fileType, filePreview, eegData, result>> ]_vars

C2_Witness ==
    /\ lastEvent.op = "upload"
    /\ lastEvent.picked # Null
    /\ EndsWith(Val(lastEvent.picked).name, <<".", "c", "s", "v">>)
    /\ StartsWith(Val(lastEvent.picked).type, <<"i", "m", "a", "g", "e", "/">>)
    /\ fileType = Some("csv")

\* The prediction string of a back end's answer, if it has one.
AnswerPrediction(response) ==
    IF response.body.kind = "object" THEN Val(response.body.obj).prediction ELSE Null

\* C7: every result returned by analyzeEEGSignal or analyzeEEGImage, in
\* both builds, has prediction SEIZURE or NON_SEIZURE, never UNCERTAIN; it
\* is SEIZURE exactly when the answer's prediction is the string 'Seizure'.
C7_PredictionIsBinary ==
    lastEvent.op = "resolve" =>
        /\ lastEvent.value.prediction \in {SEIZURE, NON_SEIZURE}
        /\ lastEvent.response # Null =>
             ((lastEvent.value.prediction = SEIZURE)
                <=> (AnswerPrediction(Val(lastEvent.response)) = Some("Seizure")))

C7_Witness ==
    /\ lastEvent.op = "resolve"
    /\ lastEvent.response # Null
    /\ AnswerPrediction(Val(lastEvent.response)) = Some("Uncertain")
    /\ Val(result).prediction = NON_SEIZURE

NoNumericSample(text) == \A i \in 1..Len(text) : ~IsDigit(text[i])

\* C9: when the content of an uploaded .csv holds no parsable numeric
\* sample, the FileReader callback sets error to the parse error and does
\* not set eegData, so no analysis runs on it.
C9_MalformedCsvReported ==
    /\ (lastEvent.op = "onload" /\ lastEvent.load.isCsv
            /\ NoNumericSample(readAsText(lastEvent.load.file)))
         => (error = Some(ERR_PARSE) /\ (eegData = Null \/ Val(eegData).values # <<>>))
    /\ \A i \in 1..Len(calls) :
         calls[i].svc = "analyzeEEGSignal" => calls[i].arg.values # <<>>

\* The heading that goes with each band
HeadingOfBand ==
    [b \in {"Delta", "Theta", "Alpha", "Beta", "Gamma"} |->
        CASE b = "Delta" -> "Generalized or Focal Onset Seizure"
          [] b = "Theta" -> "Temporal Lobe / Focal Aware Seizure"
          [] b = "Beta" -> "Motor / Awareness-Related Seizure"
          [] b = "Gamma" -> "Critical High-Frequency Discharge"
          [] b = "Alpha" -> "Atypical / Unknown Onset Seizure"]

\* C12: whenever a result is shown whose dominantBand is one of the five
\* bands, exactly one Seizure Type Assessment heading is shown, the one that
\* goes with the band, whatever the other fields of the result are.
C12_OneHeadingPerBand ==
    ResultShown /\ Val(result).dominantBand # Null
                /\ Val(Val(result).dominantBand) \in DOMAIN HeadingOfBand
        => SeizureTypeAssessment(Val(result))
               = <<HeadingOfBand[Val(Val(result).dominantBand)]>>

\* C13: in the remote build the Seizure Classification panel of a result is
\* rendered exactly when the prediction is SEIZURE and the response had a
\* seizureClassification object, and its onset, awareness, motor and ILAE
\* fields are those of the response.
C13_PanelPassesClassificationThrough ==
    lastEvent.op = "resolve" /\ impl = "remote" =>
        LET data == Val(Val(lastEvent.response).body.obj)
            panel == SeizureClassificationPanel(Val(result))
        IN  /\ panel # Null <=> /\ Val(result).prediction = SEIZURE
                                /\ data.seizureClassification # Null
            /\ panel # Null =>
                  LET c == Val(data.seizureClassification)
                  IN  /\ Val(panel).onset = c.onsetType
                      /\ Val(panel).awareness = c.awarenessStatus
                      /\ Val(panel).motor = c.motorSubtype
                      /\ Val(panel).ilae = c.ilaClassification

C13_Witness ==
    /\ lastEvent.op = "resolve" /\ impl = "remote" /\ ResultShown
    /\ SeizureClassificationPanel(Val(result)) # Null

\* What the remote client throws for a non-OK answer whose body is a JSON
\* object: the error text of the body, or the default text of the function.
NonOkThrowsServerText ==
    \A r \in Responses :
        ~r.ok /\ r.body.kind = "object" =>
            LET text == Val(r.body.obj).error
            IN  /\ ~analyzeEEGSignalRemote(r).ok
                /\ analyzeEEGSignalRemote(r).thrown
                     = (IF text # Null THEN Val(text) ELSE "CSV analysis failed")
                /\ ~analyzeEEGImageRemote(r).ok
                /\ analyzeEEGImageRemote(r).thrown
                     = (IF text # Null THEN Val(text) ELSE "Image analysis failed")

\* C14: whenever the invoked service rejects (the request fails, or the
\* answer is not OK, which the remote client turns into a thrown Error with
\* the server's error text or a default text), handleAnalyze sets error to
\* 'Analysis failed. Check your connection or API key.', leaves result as it
\* is and sets isAnalyzing to false.
C14_RejectionSetsFixedError ==
    [][lastEvent'.op = "reject" =>
          /\ error' = Some("Analysis failed. Check your connection or API key.")
          /\ result' = result
          /\ isAnalyzing' = FALSE
          /\ NonOkThrowsServerText]_vars

C14_Witness ==
    /\ lastEvent.op = "reject" /\ lastEvent.thrown = "No values provided"
    /\ error # Null /\ ~isAnalyzing

\* C15: a result that is not null is the result of the selected file: there
\* is a selected file whenever there is a result, and no analysis started
\* before a reset stores its result after it.
C15_ResultBelongsToSelectedFile ==
    /\ result # Null => file # Null
    /\ lastEvent.op = "resolve" =>
          /\ file # Null
          /\ lastEvent.call = ServiceCall(lastEvent.call.svc,
                                         IF lastEvent.call.svc = "analyzeEEGSignal"
                                         THEN parseCSV(readAsText(Val(file)))
                                         ELSE readAsDataURL(Val(file)))

\* C16: the eegData and the filePreview of the state are the content of the
\* selected file.
C16_ContentBelongsToSelectedFile ==
    /\ eegData # Null =>
          file # Null /\ eegData = Some(parseCSV(readAsText(Val(file))))
    /\ filePreview # Null =>
          file # Null /\ filePreview = Some(readAsDataURL(Val(file)))

\* C17: an invocation of handleAnalyze with a file selected ends with a
\* result or an error in the state, also when it comes before the file's
\* content is loaded. An invocation ends when its service call settles, or
\* at once when it calls no service; after its end it changes nothing, so
\* what it leads to is what the state holds at its end.
C17_AnalyzeEndsWithResultOrError ==
    (\/ lastEvent.op \in {"resolve", "reject"}
     \/ lastEvent.op = "analyze" /\ lastEvent.called = <<>>)
        => (result # Null \/ error # Null)

\* C18: isAnalyzing is true exactly while an invocation of handleAnalyze is
\* in progress, that is while its service call is in flight: an invocation
\* that calls a service sets it, the call settling (resolved or rejected) or
\* no service being called sets it back to false, and no other handler
\* changes isAnalyzing.
C18_IsAnalyzingWhileInvocationInProgress ==
    [][/\ isAnalyzing' <=> calls' # <<>>
       /\ lastEvent'.op = "analyze" => isAnalyzing' = (lastEvent'.called # <<>>)
       /\ lastEvent'.op \in {"resolve", "reject"} => isAnalyzing /\ ~isAnalyzing'
       /\ lastEvent'.op \notin {"analyze", "resolve", "reject"}
             => isAnalyzing' = isAnalyzing]_vars

C18_Witness ==
    /\ lastEvent.op = "reject" /\ ~isAnalyzing /\ file = Null

\* C19: at most one analysis request is outstanding at any time, also across
\* a reset followed by a new upload, and handleAnalyze starts only with a
\* file selected, no result and isAnalyzing false.
C19_AtMostOneRequest ==
    [][/\ Len(calls') <= 1
       /\ lastEvent'.op = "analyze" =>
             file # Null /\ result = Null /\ ~isAnalyzing /\ calls = <<>>]_vars

\* a new file has been selected after a reset while the request of the
\* file before is still outstanding
C19_Witness ==
    /\ Len(calls) = 1 /\ isAnalyzing /\ lastEvent.op = "upload"
    /\ file # Null /\ result = Null
    /\ calls[1] # ServiceCall(calls[1].svc,
                               IF calls[1].svc = "analyzeEEGSignal"
                               THEN parseCSV(readAsText(Val(file)))
                               ELSE readAsDataURL(Val(file)))

\* C20: result and error are never both set.
C20_ResultAndErrorExclusive == ~(result # Null /\ error # Null)

----------------------------------------------------------------------------
(* Claims about parseCSV (SpecCSV). *)

RECURSIVE Flatten(_)
Flatten(rows) == IF rows = <<>> THEN <<>> ELSE Head(rows) \o Flatten(Tail(rows))

InSeq(x, s) == \E i \in 1..Len(s) : s[i] = x

\* C5: for a multi-column CSV, parseCSV returns in values every numerical
\* signal value of every data row, in file order.
C5_AllSignalValuesReturned ==
    (csvParsed # Null /\ SignalCols(Val(csvDoc)) >= 2)
        => Val(csvParsed).values = Flatten(Val(csvDoc).rows)

\* C6: no cell of a header row (line 0 of a document that has one) and no
\* value of the label column y is among the returned values.
C6_HeaderAndLabelExcluded ==
    csvParsed # Null =>
        /\ Val(csvDoc).header # "none" => ~InSeq(0, Val(csvParsed).timestamps)
        /\ Val(csvDoc).label # Null => ~InSeq(Val(Val(csvDoc).label), Val(csvParsed).values)

====
